---- MODULE Spec2Model ----
(***************************************************************************)
(* A model of knack's CommandInvoker (src/knack/invocation.py): one        *)
(* invocation of the CLI, from the raw argument vector to the              *)
(* CommandResultItem.  Strings are sequences of one-character strings, so  *)
(* that current[0] == '-', str.lower, str.split, ' '.join and              *)
(* key.startswith('_') are computed rather than assumed.                   *)
(***************************************************************************)
EXTENDS Integers, Sequences, FiniteSets, TLC

(* ------------------------------ bounds --------------------------------- *)

\* Longest argument vector handed to execute.
MaxArgs == 2

(* ------------------------------ strings -------------------------------- *)

\* str.lower on the alphabet of the tokens used here.
LowerChar(c) ==
    CASE c = "H" -> "h"
      [] c = "E" -> "e"
      [] c = "L" -> "l"
      [] c = "P" -> "p"
      [] OTHER -> c

RECURSIVE lower(_)
lower(s) == IF s = <<>> THEN <<>> ELSE <<LowerChar(Head(s))>> \o lower(Tail(s))

\* sep.join(list)
RECURSIVE join(_, _)
join(sep, list) ==
    IF list = <<>> THEN <<>>
    ELSE IF Len(list) = 1 THEN Head(list)
    ELSE Head(list) \o sep \o join(sep, Tail(list))

\* str.split() with no separator: runs of blanks separate, none is kept.
RECURSIVE splitFrom(_, _, _)
splitFrom(s, word, acc) ==
    IF s = <<>> THEN (IF word = <<>> THEN acc ELSE Append(acc, word))
    ELSE IF Head(s) = " "
         THEN splitFrom(Tail(s), <<>>, IF word = <<>> THEN acc ELSE Append(acc, word))
         ELSE splitFrom(Tail(s), Append(word, Head(s)), acc)

split(s) == splitFrom(s, <<>>, <<>>)

\* key.startswith('_')
startswith_underscore(key) == Len(key) > 0 /\ key[1] = "_"

\* list[:-1]
AllButLast(list) == IF list = <<>> THEN <<>> ELSE SubSeq(list, 1, Len(list) - 1)

SeqsUpTo(S, n) == UNION {[1..k -> S] : k \in 0..n}

(* ------------------------------ tokens --------------------------------- *)

T_help     == <<"h", "e", "l", "p">>
T_Help     == <<"H", "e", "l", "p">>
T_flagHelp == <<"-", "-", "h", "e", "l", "p">>
T_opt      == <<"-", "x">>
T_empty    == <<>>

Tokens == {T_help, T_Help, T_flagHelp, T_opt, T_empty}

ArgVectors == SeqsUpTo(Tokens, MaxArgs)

(* ------------------------------ values --------------------------------- *)

\* Python values are tagged, so that values of different types compare unequal.
None == [kind |-> "none", val |-> <<>>]
Str(s) == [kind |-> "str", val |-> s]
Num(n) == [kind |-> "int", val |-> n]
List(l) == [kind |-> "list", val |-> l]
Validator(behaviour) == [kind |-> "validator", val |-> behaviour]
ParserRef(which) == [kind |-> "parser", val |-> which]

Dict(items) == [kind |-> "dict", val |-> items]
Bool(b) == [kind |-> "bool", val |-> b]

\* bool(v): None, the empty list and the empty dict are falsy.
Truthy(v) ==
    ~(\/ v.kind = "none"
      \/ (v.kind = "list" /\ v.val = <<>>)
      \/ (v.kind = "dict" /\ v.val = <<>>))

\* Exceptions in flight: type and message.  NoError: nothing was raised.
NoError == [type |-> "none", msg |-> ""]
Exc(type, msg) == [type |-> type, msg |-> msg]

\* An object's __dict__ (and a dict): items in insertion order.
Item(key, value) == [key |-> key, value |-> value]
Keys(d) == {d[i].key : i \in DOMAIN d}
hasattr(d, key) == key \in Keys(d)
getattr(d, key, default) ==
    IF hasattr(d, key) THEN d[CHOOSE i \in DOMAIN d : d[i].key = key].value ELSE default
RECURSIVE delattr(_, _)
delattr(d, key) ==
    IF d = <<>> THEN <<>>
    ELSE IF Head(d).key = key THEN delattr(Tail(d), key)
    ELSE <<Head(d)>> \o delattr(Tail(d), key)
setattr(d, key, value) ==
    IF hasattr(d, key)
    THEN [i \in DOMAIN d |-> IF d[i].key = key THEN Item(key, value) ELSE d[i]]
    ELSE Append(d, Item(key, value))

(* ------------------------------ attribute names ------------------------ *)

K_command == <<"c", "o", "m", "m", "a", "n", "d">>
K_func == <<"f", "u", "n", "c">>
K__command_validator ==
    <<"_", "c", "o", "m", "m", "a", "n", "d", "_", "v", "a", "l", "i", "d", "a", "t", "o", "r">>
K__argument_validators ==
    <<"_", "a", "r", "g", "u", "m", "e", "n", "t", "_", "v", "a", "l", "i", "d", "a", "t", "o", "r", "s">>
K__argument_deprecations ==
    <<"_", "a", "r", "g", "u", "m", "e", "n", "t", "_", "d", "e", "p", "r", "e", "c", "a", "t", "i", "o", "n", "s">>
K__parser == <<"_", "p", "a", "r", "s", "e", "r">>
\* Arguments of the commands registered here.
K_name == <<"n", "a", "m", "e">>
K_no_wait == <<"n", "o", "_", "w", "a", "i", "t">>
K__subscription == <<"_", "s", "u", "b">>

(* ------------------------------ pure helpers --------------------------- *)

\* _filter_params(args): the handler's parameters, and args.__dict__ as the call
\* leaves it.
RECURSIVE public_items(_)
public_items(items) ==
    IF items = <<>> THEN <<>>
    ELSE IF ~startswith_underscore(Head(items).key)
         THEN <<Head(items)>> \o public_items(Tail(items))
         ELSE public_items(Tail(items))

\* A faulty variant, which forgets params.pop('command', None).
_filter_params_keeps_command(ns) ==
    [params |-> delattr(public_items(ns), K_func), ns |-> ns]

_filter_params(ns) ==
    LET params == public_items(ns)
    IN  [params |-> delattr(delattr(params, K_func), K_command), ns |-> ns]

\* A faulty variant of rudimentary_scan, in which the IndexError of an empty token
\* ends the loop (`except IndexError: break`).
RECURSIVE rudimentary_scan_stops_at_empty(_, _, _)
rudimentary_scan_stops_at_empty(args, i, nouns) ==
    IF i > Len(args) THEN [args |-> args, nouns |-> nouns]
    ELSE LET current == args[i] IN
         IF Len(current) = 0 \/ current[1] = "-"
         THEN [args |-> args, nouns |-> nouns]
         ELSE rudimentary_scan_stops_at_empty([args EXCEPT ![i] = lower(current)], i + 1,
                                              Append(nouns, lower(current)))

\* _rudimentary_get_command(args): the command name, and the caller's list as the
\* call leaves it (args[i] = current.lower() for every token consumed).
RECURSIVE rudimentary_scan(_, _, _)
rudimentary_scan(args, i, nouns) ==
    IF i > Len(args) THEN [args |-> args, nouns |-> nouns]
    ELSE LET current == args[i] IN
         IF Len(current) > 0 /\ current[1] = "-"
         THEN [args |-> args, nouns |-> nouns]
         ELSE rudimentary_scan([args EXCEPT ![i] = lower(current)], i + 1,
                               Append(nouns, lower(current)))

_rudimentary_get_command(args) ==
    LET r == rudimentary_scan(args, 1, <<>>)
    IN  [command |-> join(<<" ">>, r.nouns), args |-> r.args]

(* ------------------------------ validation ----------------------------- *)

\* What a validator does when called with the namespace: the namespace it leaves
\* and the exception it raises.  "touch" rewrites the argument `name`; "copy" reads
\* it and writes it to the argument `no_wait`.
call_validator(v, ns) ==
    CASE v.val = "ok"        -> [ns |-> ns, exc |-> NoError]
      [] v.val = "touch"     -> [ns |-> setattr(ns, K_name, Num(9)), exc |-> NoError]
      [] v.val = "copy"      -> [ns |-> setattr(ns, K_no_wait, getattr(ns, K_name, None)),
                                 exc |-> NoError]
      [] v.val = "cli_error" -> [ns |-> ns, exc |-> Exc("CLIError", "usage")]
      [] v.val = "fault"     -> [ns |-> ns, exc |-> Exc("ValueError", "boom")]

ValidatorCall(level, v) == [level |-> level, validator |-> v.val]

\* A faulty variant of _validate_cmd_level, without the delattr.
_validate_cmd_level_keeps_validator(ns, cmd_validator) ==
    LET r == IF Truthy(cmd_validator) THEN call_validator(cmd_validator, ns)
             ELSE [ns |-> ns, exc |-> NoError]
        calls == IF Truthy(cmd_validator) THEN <<ValidatorCall("cmd", cmd_validator)>>
                 ELSE <<>>
    IN  [ns |-> r.ns, exc |-> r.exc, calls |-> calls]

\* _validate_cmd_level(ns, cmd_validator)
_validate_cmd_level(ns, cmd_validator) ==
    LET r == IF Truthy(cmd_validator) THEN call_validator(cmd_validator, ns)
             ELSE [ns |-> ns, exc |-> NoError]
        calls == IF Truthy(cmd_validator) THEN <<ValidatorCall("cmd", cmd_validator)>>
                 ELSE <<>>
    IN  IF r.exc # NoError
        THEN [ns |-> r.ns, exc |-> r.exc, calls |-> calls]
        ELSE [ns |-> delattr(r.ns, K__command_validator), exc |-> NoError, calls |-> calls]

\* The for loop of _validate_arg_level: the first validator that raises ends it.
RECURSIVE run_validators(_, _, _)
run_validators(validators, ns, calls) ==
    IF validators = <<>> THEN [ns |-> ns, exc |-> NoError, calls |-> calls]
    ELSE LET r == call_validator(Head(validators), ns)
             called == Append(calls, ValidatorCall("arg", Head(validators)))
         IN  IF r.exc # NoError THEN [ns |-> r.ns, exc |-> r.exc, calls |-> called]
             ELSE run_validators(Tail(validators), r.ns, called)

\* _validate_arg_level(ns)
_validate_arg_level(ns) ==
    LET r == run_validators(getattr(ns, K__argument_validators, List(<<>>)).val, ns, <<>>)
    IN  IF r.exc # NoError THEN r
        ELSE [ns |-> delattr(r.ns, K__argument_validators), exc |-> NoError,
              calls |-> r.calls]

\* str(err)
str(err) == err.msg

\* parser.validation_error(message): the parser's error path, which does not return.
validation_error(parser, message) == Exc("ValidationError", message)

NotReported == [via |-> "", message |-> ""]

\* A faulty variant, without the `except CLIError: raise` clause.
_validation_reports_all(parsed_ns, self_parser) ==
    LET cmd_validator == getattr(parsed_ns, K__command_validator, None)
        r == IF Truthy(cmd_validator) THEN _validate_cmd_level(parsed_ns, cmd_validator)
             ELSE _validate_arg_level(parsed_ns)
    IN  IF r.exc = NoError
        THEN [ns |-> r.ns, calls |-> r.calls, reported |-> NotReported, exc |-> r.exc]
        ELSE LET parser == getattr(r.ns, K__parser, self_parser)
             IN  [ns |-> r.ns, calls |-> r.calls,
                  reported |-> [via |-> parser.val, message |-> str(r.exc)],
                  exc |-> validation_error(parser, str(r.exc))]

\* A faulty variant, which always reports through self.parser.
_validation_top_parser(parsed_ns, self_parser) ==
    LET cmd_validator == getattr(parsed_ns, K__command_validator, None)
        r == IF Truthy(cmd_validator) THEN _validate_cmd_level(parsed_ns, cmd_validator)
             ELSE _validate_arg_level(parsed_ns)
    IN  IF r.exc = NoError \/ r.exc.type = "CLIError"
        THEN [ns |-> r.ns, calls |-> r.calls, reported |-> NotReported, exc |-> r.exc]
        ELSE [ns |-> r.ns, calls |-> r.calls,
              reported |-> [via |-> self_parser.val, message |-> str(r.exc)],
              exc |-> validation_error(self_parser, str(r.exc))]

\* A faulty variant, which goes on to the argument level after the command level.
_validation_both_levels(parsed_ns, self_parser) ==
    LET cmd_validator == getattr(parsed_ns, K__command_validator, None)
        c == IF Truthy(cmd_validator) THEN _validate_cmd_level(parsed_ns, cmd_validator)
             ELSE [ns |-> parsed_ns, exc |-> NoError, calls |-> <<>>]
        a == IF c.exc = NoError THEN _validate_arg_level(c.ns)
             ELSE [ns |-> c.ns, exc |-> c.exc, calls |-> <<>>]
        r == [ns |-> a.ns, exc |-> a.exc, calls |-> c.calls \o a.calls]
    IN  IF r.exc = NoError \/ r.exc.type = "CLIError"
        THEN [ns |-> r.ns, calls |-> r.calls, reported |-> NotReported, exc |-> r.exc]
        ELSE LET parser == getattr(r.ns, K__parser, self_parser)
             IN  [ns |-> r.ns, calls |-> r.calls,
                  reported |-> [via |-> parser.val, message |-> str(r.exc)],
                  exc |-> validation_error(parser, str(r.exc))]

\* _validation(parsed_ns): the namespace it leaves, the validators it called, the
\* parser it reported through and the exception that leaves it.
_validation(parsed_ns, self_parser) ==
    LET cmd_validator == getattr(parsed_ns, K__command_validator, None)
        r == IF Truthy(cmd_validator) THEN _validate_cmd_level(parsed_ns, cmd_validator)
             ELSE _validate_arg_level(parsed_ns)
    IN  IF r.exc = NoError \/ r.exc.type = "CLIError"
        THEN [ns |-> r.ns, calls |-> r.calls, reported |-> NotReported, exc |-> r.exc]
        ELSE LET parser == getattr(r.ns, K__parser, self_parser)
             IN  [ns |-> r.ns, calls |-> r.calls,
                  reported |-> [via |-> parser.val, message |-> str(r.exc)],
                  exc |-> validation_error(parser, str(r.exc))]

(* ------------------------------ deprecation ---------------------------- *)

\* A Deprecated object: its __dict__.
Deprecated(object_type, target) ==
    [kind |-> "Deprecated",
     val |-> [object_type |-> object_type, target |-> target,
              _get_tag |-> "tag_func", _get_message |-> "message_func"]]

\* ImplicitDeprecated(**kwargs)
ImplicitDeprecated(kwargs) == [kind |-> "ImplicitDeprecated", val |-> kwargs]

\* resolve_deprecate_info(cli_ctx, name): the descriptor registered for `name`.
resolve_deprecate_info(table, name) ==
    IF name \in DOMAIN table THEN table[name] ELSE None

\* A faulty variant of the loop below, `while path_comps:`, which goes on to the root.
RECURSIVE implicit_search_to_root(_, _, _, _)
implicit_search_to_root(table, path_comps, implicit_deprecate_info, lookups) ==
    IF path_comps # <<>>
    THEN implicit_search_to_root(table, AllButLast(path_comps),
                                 resolve_deprecate_info(table, join(<<" ">>, path_comps)),
                                 Append(lookups, join(<<" ">>, path_comps)))
    ELSE [info |-> implicit_deprecate_info, lookups |-> lookups]

\* A faulty variant of the loop below, which drops the first token of the path
\* rather than the last: `del path_comps[0]`.
RECURSIVE implicit_search_drops_first(_, _, _, _)
implicit_search_drops_first(table, path_comps, implicit_deprecate_info, lookups) ==
    IF path_comps # <<>> /\ ~Truthy(implicit_deprecate_info)
    THEN implicit_search_drops_first(table, Tail(path_comps),
                                     resolve_deprecate_info(table, join(<<" ">>, path_comps)),
                                     Append(lookups, join(<<" ">>, path_comps)))
    ELSE [info |-> implicit_deprecate_info, lookups |-> lookups]

\* The while loop that searches for an implicit deprecation: what it found and the
\* paths it looked up, in order.
RECURSIVE implicit_search(_, _, _, _)
implicit_search(table, path_comps, implicit_deprecate_info, lookups) ==
    IF path_comps # <<>> /\ ~Truthy(implicit_deprecate_info)
    THEN implicit_search(table, AllButLast(path_comps),
                         resolve_deprecate_info(table, join(<<" ">>, path_comps)),
                         Append(lookups, join(<<" ">>, path_comps)))
    ELSE [info |-> implicit_deprecate_info, lookups |-> lookups]

\* deprecate_kwargs: a copy of the descriptor's __dict__ with object_type set and the
\* two accessors deleted.
deprecate_kwargs(info) ==
    [k \in (DOMAIN info.val) \ {"_get_tag", "_get_message"} |->
        IF k = "object_type" THEN "command" ELSE info.val[k]]

\* A faulty variant of collect_deprecations, whose search starts at the command's own
\* name: path_comps = cmd.name.split().
collect_deprecations_own_name(ns, table) ==
    LET cmd == getattr(ns, K_func, None).val
        argument_deprecations == getattr(ns, K__argument_deprecations, List(<<>>)).val
        explicit == IF Truthy(cmd.deprecate_info)
                    THEN Append(argument_deprecations, cmd.deprecate_info)
                    ELSE argument_deprecations
        found == implicit_search(table, split(cmd.name), None, <<>>)
        deprecations == IF Truthy(found.info)
                        THEN Append(explicit, ImplicitDeprecated(deprecate_kwargs(found.info)))
                        ELSE explicit
    IN  [deprecations |-> deprecations,
         implicit |-> found.info,
         lookups |-> found.lookups,
         ns |-> IF hasattr(ns, K__argument_deprecations)
                THEN setattr(ns, K__argument_deprecations, List(deprecations))
                ELSE ns]

\* A faulty variant of collect_deprecations, which searches for the implicit
\* deprecation first and appends the command's own deprecate_info after it.
collect_deprecations_implicit_first(ns, table) ==
    LET cmd == getattr(ns, K_func, None).val
        argument_deprecations == getattr(ns, K__argument_deprecations, List(<<>>)).val
        found == implicit_search(table, AllButLast(split(cmd.name)), None, <<>>)
        implicit == IF Truthy(found.info)
                    THEN Append(argument_deprecations,
                                ImplicitDeprecated(deprecate_kwargs(found.info)))
                    ELSE argument_deprecations
        deprecations == IF Truthy(cmd.deprecate_info)
                        THEN Append(implicit, cmd.deprecate_info)
                        ELSE implicit
    IN  [deprecations |-> deprecations,
         implicit |-> found.info,
         lookups |-> found.lookups,
         ns |-> IF hasattr(ns, K__argument_deprecations)
                THEN setattr(ns, K__argument_deprecations, List(deprecations))
                ELSE ns]

\* Lines 148-165: the warnings to print, the lookups made and the namespace, whose
\* _argument_deprecations list is the very list that is appended to.
collect_deprecations(ns, table) ==
    LET cmd == getattr(ns, K_func, None).val
        argument_deprecations == getattr(ns, K__argument_deprecations, List(<<>>)).val
        explicit == IF Truthy(cmd.deprecate_info)
                    THEN Append(argument_deprecations, cmd.deprecate_info)
                    ELSE argument_deprecations
        found == implicit_search(table, AllButLast(split(cmd.name)), None, <<>>)
        deprecations == IF Truthy(found.info)
                        THEN Append(explicit, ImplicitDeprecated(deprecate_kwargs(found.info)))
                        ELSE explicit
    IN  [deprecations |-> deprecations,
         implicit |-> found.info,
         lookups |-> found.lookups,
         ns |-> IF hasattr(ns, K__argument_deprecations)
                THEN setattr(ns, K__argument_deprecations, List(deprecations))
                ELSE ns]

(* ------------------------------ the environment ------------------------ *)

\* Command names and group paths of the registered commands.
N_ls == <<"l", "s">>
N_vm == <<"v", "m">>
N_vm_ls == <<"v", "m", " ", "l", "s">>
N_vm_nic == <<"v", "m", " ", "n", "i", "c">>
N_vm_nic_ls == <<"v", "m", " ", "n", "i", "c", " ", "l", "s">>

\* A command of the command table: parsed_args.func.
Command(name, deprecate_info) ==
    [kind |-> "cmd",
     val |-> [name |-> name, deprecate_info |-> deprecate_info,
              table_transformer |-> "transformer"]]

ParsedNamespace(cmd, attributes) ==
    <<Item(K_command, Str(cmd.val.name)), Item(K_func, cmd)>> \o attributes

Arguments ==
    <<Item(K_name, Num(1)), Item(K__subscription, Num(2)), Item(K_no_wait, Num(3))>>

\* The namespaces the parser returns: the validator attributes a command can carry ...
ValidatorAttributes ==
    { <<>>,
      <<Item(K__command_validator, Validator("ok"))>>,
      <<Item(K__command_validator, Validator("cli_error"))>>,
      <<Item(K__command_validator, Validator("fault")),
        Item(K__argument_validators, List(<<Validator("ok")>>))>>,
      <<Item(K__command_validator, Validator("fault")),
        Item(K__parser, ParserRef("subparser"))>>,
      <<Item(K__command_validator, Validator("touch")),
        Item(K__argument_validators, List(<<Validator("fault")>>))>>,
      <<Item(K__command_validator, None),
        Item(K__argument_validators, List(<<Validator("touch"), Validator("ok")>>))>>,
      <<Item(K__argument_validators, List(<<Validator("cli_error"), Validator("touch")>>))>>,
      <<Item(K__argument_validators,
             List(<<Validator("ok"), Validator("fault"), Validator("touch")>>)),
        Item(K__parser, ParserRef("subparser"))>>,
      <<Item(K__argument_validators, List(<<Validator("fault")>>))>>,
      <<Item(K__argument_validators, List(<<Validator("touch"), Validator("copy")>>))>>,
      <<Item(K__argument_validators, List(<<>>))>> }

\* ... and the deprecations a command and its arguments can carry.
ArgumentDeprecations ==
    <<Item(K__argument_deprecations, List(<<Deprecated("argument", K_name)>>))>>

DeprecationCases ==
    { ParsedNamespace(Command(N_ls, Deprecated("command", N_ls)),
                      Arguments \o ArgumentDeprecations),
      ParsedNamespace(Command(N_vm_ls, None), Arguments),
      ParsedNamespace(Command(N_vm_nic_ls, Deprecated("command", N_vm_nic_ls)),
                      ArgumentDeprecations \o Arguments),
      ParsedNamespace(Command(N_vm_nic_ls, None),
                      <<Item(K__argument_validators, List(<<Validator("touch")>>))>>
                          \o Arguments) }

ParsedChoices ==
    {ParsedNamespace(Command(N_ls, None), Arguments \o v) : v \in ValidatorAttributes}
        \cup DeprecationCases
        \cup {ParsedNamespace(Command(N_ls, None), <<>>)}

\* The deprecation descriptors registered for the groups above a command and for the
\* command's own name.
RECURSIVE proper_prefixes(_)
proper_prefixes(comps) ==
    IF comps = <<>> THEN {}
    ELSE {join(<<" ">>, AllButLast(comps))} \cup proper_prefixes(AllButLast(comps))

GroupPaths(name) == proper_prefixes(split(name)) \ {<<>>}

DeprecationTables(name) ==
    {[p \in paths |-> Deprecated("command_group", p)] :
        paths \in SUBSET (IF GroupPaths(name) = {} THEN {} ELSE GroupPaths(name) \cup {name})}

\* todict(result): objects become dicts, everything else is kept.
todict(value) == IF value.kind = "object" THEN Dict(value.val) ELSE value

\* What the handlers return.
HandlerResults == {[kind |-> "object", val |-> <<"x">>], None}

\* What a hook may leave in event_data['result'], given what it finds there.
TransformChoices(found) == {found, Dict(<<"a">>)}
FilterChoices(found) ==
    {found, IF found.kind = "dict" THEN Dict(Append(found.val, "b")) ELSE Dict(<<"b">>)}

\* The initial_data a caller may construct the invoker with.
U_unknown == <<"u", "n", "k", "n", "o", "w", "n">>
U_stale == <<"s", "t", "a", "l", "e">>
InitialData ==
    { None,
      Dict(<<>>),
      Dict(<<Item("command", Str(U_stale))>>),
      Dict(<<Item("query_active", Bool(TRUE))>>) }

(* ------------------------------ state ---------------------------------- *)

VARIABLES
    pc,               \* where execute is
    argv,             \* the argument vector as the caller gave it
    args,             \* the caller's list, as execute has rewritten it so far
    data,             \* self.data
    log,              \* events raised and collaborators called, in order
    command,          \* the command name of _rudimentary_get_command
    returned_ns,      \* the namespace as parse_args returned it
    parsed_args,      \* that namespace, as execute and the validators have left it
    validator_calls,  \* the validators called, in order
    reported,         \* the validation_error call made
    params,           \* the parameters passed to the handler
    registry,         \* the deprecation descriptors the lookups read
    deprecations,     \* the warnings to print
    lookups,          \* the paths looked up for an implicit deprecation
    stderr,           \* the warnings printed
    color,            \* whether colorama is initialised
    cmd_result,       \* what the handler returned
    event_data,       \* the payload of transform-result and filter-result
    transform_left,   \* event_data['result'] as the transform-result hooks left it
    filter_saw,       \* event_data['result'] as filter-result was raised
    result,           \* what execute returned
    error,            \* the exception that left execute
    first             \* the run before this one, when execute is run a second time

vars == <<pc, argv, args, data, log, command, returned_ns, parsed_args, validator_calls,
          reported, params, registry, deprecations, lookups, stderr, color, cmd_result,
          event_data, transform_left, filter_saw, result, error, first>>

Call(op, payload) == [op |-> op, payload |-> payload]

EVENT_INVOKER_PRE_CMD_TBL_CREATE == "event:pre-command-table-create"
EVENT_INVOKER_POST_CMD_TBL_CREATE == "event:post-command-table-create"
EVENT_INVOKER_CMD_TBL_LOADED == "event:command-table-loaded"
EVENT_INVOKER_PRE_PARSE_ARGS == "event:pre-parse-args"
EVENT_INVOKER_POST_PARSE_ARGS == "event:post-parse-args"
EVENT_INVOKER_TRANSFORM_RESULT == "event:transform-result"
EVENT_INVOKER_FILTER_RESULT == "event:filter-result"

Unset == [kind |-> "unset", val |-> <<>>]
NoRun == [argv |-> <<>>, log |-> <<>>]

CommandResultItem(payload, table_transformer, is_query_active) ==
    [kind |-> "CommandResultItem",
     val |-> [result |-> payload, table_transformer |-> table_transformer,
              is_query_active |-> is_query_active]]

\* __init__: self.data = initial_data or defaultdict(lambda: None), then
\* self.data['command'] = 'unknown'.
construct(initial_data) ==
    LET items == IF Truthy(initial_data) THEN initial_data.val ELSE <<>>
    IN  [defaultdict |-> ~Truthy(initial_data),
         items |-> setattr(items, "command", Str(U_unknown))]

\* self.data[key]: a defaultdict stores and gives None for a missing key, a dict
\* raises KeyError.
subscript(d, key) ==
    IF hasattr(d.items, key)
    THEN [value |-> getattr(d.items, key, None), exc |-> NoError, data |-> d]
    ELSE IF d.defaultdict
         THEN [value |-> None, exc |-> NoError,
               data |-> [d EXCEPT !.items = setattr(d.items, key, None)]]
         ELSE [value |-> None, exc |-> Exc("KeyError", key), data |-> d]

\* The state a new CommandInvoker is in.
Constructed(initial_data) ==
    /\ pc = "constructed"
    /\ argv = <<>>
    /\ args = <<>>
    /\ data = construct(initial_data)
    /\ log = <<>>
    /\ command = <<>>
    /\ returned_ns = <<>>
    /\ parsed_args = <<>>
    /\ validator_calls = <<>>
    /\ reported = NotReported
    /\ params = <<>>
    /\ registry = <<>>
    /\ deprecations = <<>>
    /\ lookups = <<>>
    /\ stderr = <<>>
    /\ color = FALSE
    /\ cmd_result = Unset
    /\ event_data = [result |-> Unset]
    /\ transform_left = Unset
    /\ filter_saw = Unset
    /\ result = Unset
    /\ error = NoError

Init ==
    /\ \E initial_data \in InitialData : Constructed(initial_data)
    /\ first = NoRun

(* ------------------------------ execute -------------------------------- *)

\* Line 119: execute(args) starts and raises pre-command-table-create.
Execute ==
    /\ pc = "constructed"
    /\ \E a \in ArgVectors :
        /\ first # NoRun => a = <<T_flagHelp>> \o Tail(first.argv)
        /\ argv' = a
        /\ args' = a
        /\ log' = Append(log, Call(EVENT_INVOKER_PRE_CMD_TBL_CREATE, a))
    /\ pc' = "load_command_table"
    /\ UNCHANGED <<data, command, returned_ns, parsed_args, validator_calls, reported,
                   params, registry, deprecations, lookups, stderr, color, cmd_result,
                   event_data, transform_left, filter_saw, result, error, first>>

\* Line 120: commands_loader.load_command_table(args), which may raise.
LoadCommandTable ==
    /\ pc = "load_command_table"
    /\ log' = Append(log, Call("load_command_table", args))
    /\ \/ pc' = "load_arguments" /\ error' = error
       \/ pc' = "failed" /\ error' = Exc("LoaderError", "load_command_table")
    /\ UNCHANGED <<argv, args, data, command, returned_ns, parsed_args,
                   validator_calls, reported, params, registry, deprecations, lookups,
                   stderr, color, cmd_result, event_data, transform_left, filter_saw,
                   result, first>>

\* Lines 121-122: the heuristic command name, and load_arguments(command).
LoadArguments ==
    /\ pc = "load_arguments"
    /\ LET r == _rudimentary_get_command(args) IN
        /\ args' = r.args
        /\ command' = r.command
        /\ log' = Append(log, Call("load_arguments", <<r.command>>))
    /\ pc' = "register"
    /\ UNCHANGED <<argv, data, returned_ns, parsed_args, validator_calls, reported,
                   params, registry, deprecations, lookups, stderr, color, cmd_result,
                   event_data, transform_left, filter_saw, result, error, first>>

\* A faulty variant of RegisterCommandTable, which raises command-table-loaded first.
RegisterCommandTable_loaded_first ==
    /\ pc = "register"
    /\ log' = log \o <<Call(EVENT_INVOKER_CMD_TBL_LOADED, <<>>),
                       Call("parser.load_command_table", <<>>),
                       Call(EVENT_INVOKER_POST_CMD_TBL_CREATE, <<>>)>>
    /\ pc' = "loaded"
    /\ UNCHANGED <<argv, args, data, command, returned_ns, parsed_args, validator_calls,
                   reported, params, registry, deprecations, lookups, stderr, color,
                   cmd_result, event_data, transform_left, filter_saw, result, error,
                   first>>

\* Lines 124-126: post-command-table-create, parser.load_command_table,
\* command-table-loaded.
RegisterCommandTable ==
    /\ pc = "register"
    /\ log' = log \o <<Call(EVENT_INVOKER_POST_CMD_TBL_CREATE, <<>>),
                       Call("parser.load_command_table", <<>>),
                       Call(EVENT_INVOKER_CMD_TBL_LOADED, <<>>)>>
    /\ pc' = "loaded"
    /\ UNCHANGED <<argv, args, data, command, returned_ns, parsed_args,
                   validator_calls, reported, params, registry, deprecations, lookups,
                   stderr, color, cmd_result, event_data, transform_left, filter_saw,
                   result, error, first>>

\* A faulty variant of ShowWelcome, without `return None`: line 133 then reads args[0]
\* of the empty list.
ShowWelcome_no_return ==
    /\ pc = "loaded"
    /\ args = <<>>
    /\ log' = log \o <<Call("enable_autocomplete", <<>>), Call("show_welcome", <<>>)>>
    /\ error' = Exc("IndexError", "list index out of range")
    /\ pc' = "failed"
    /\ UNCHANGED <<argv, args, data, command, returned_ns, parsed_args, validator_calls,
                   reported, params, registry, deprecations, lookups, stderr, color,
                   cmd_result, event_data, transform_left, filter_saw, result, first>>

\* Lines 127-131: no arguments: autocompletion, the welcome view, return None.
ShowWelcome ==
    /\ pc = "loaded"
    /\ args = <<>>
    /\ log' = log \o <<Call("enable_autocomplete", <<>>), Call("show_welcome", <<>>)>>
    /\ result' = None
    /\ pc' = "done"
    /\ UNCHANGED <<argv, args, data, command, returned_ns, parsed_args,
                   validator_calls, reported, params, registry, deprecations, lookups,
                   stderr, color, cmd_result, event_data, transform_left, filter_saw,
                   error, first>>

\* A faulty variant of normalize_help, which rewrites nothing.
normalize_help_never(a) == a

\* Lines 133-134: a first token that lower-cases to help becomes --help.
normalize_help(a) == IF lower(a[1]) = T_help THEN [a EXCEPT ![1] = T_flagHelp] ELSE a

\* Lines 133-138: help is rewritten, autocompletion enabled, pre-parse-args raised.
PreParseArgs ==
    /\ pc = "loaded"
    /\ args # <<>>
    /\ args' = normalize_help(args)
    /\ log' = log \o <<Call("enable_autocomplete", <<>>),
                       Call(EVENT_INVOKER_PRE_PARSE_ARGS, normalize_help(args))>>
    /\ pc' = "parse_args"
    /\ UNCHANGED <<argv, data, command, returned_ns, parsed_args, validator_calls,
                   reported, params, registry, deprecations, lookups, stderr, color,
                   cmd_result, event_data, transform_left, filter_saw, result, error,
                   first>>

\* The parser's show-help flag: parse_args prints the help and exits.
shows_help(a) == a[1] = T_flagHelp

\* A faulty variant of ParseArgs, which raises post-parse-args in a finally clause,
\* so also when parse_args raised.
ParseArgs_event_in_finally ==
    /\ pc = "parse_args"
    /\ \/ /\ ~shows_help(args)
          /\ \E ns \in ParsedChoices : returned_ns' = ns /\ parsed_args' = ns
          /\ log' = Append(log, Call("parse_args", args))
          /\ pc' = "post_parse_args"
          /\ error' = error
       \/ /\ pc' = "failed"
          /\ log' = log \o <<Call("parse_args", args),
                             Call(EVENT_INVOKER_POST_PARSE_ARGS, <<>>)>>
          /\ error' = Exc("ParseError", "parse_args")
          /\ UNCHANGED <<returned_ns, parsed_args>>
    /\ UNCHANGED <<argv, args, data, command, validator_calls, reported, params,
                   registry, deprecations, lookups, stderr, color, cmd_result,
                   event_data, transform_left, filter_saw, result, first>>

\* Line 139: parser.parse_args(args) returns a namespace, or raises.
ParseArgs ==
    /\ pc = "parse_args"
    /\ log' = Append(log, Call("parse_args", args))
    /\ \/ /\ ~shows_help(args)
          /\ \E ns \in ParsedChoices : returned_ns' = ns /\ parsed_args' = ns
          /\ pc' = "post_parse_args"
          /\ error' = error
       \/ /\ pc' = "failed"
          /\ error' = Exc("ParseError", "parse_args")
          /\ UNCHANGED <<returned_ns, parsed_args>>
    /\ UNCHANGED <<argv, args, data, command, validator_calls, reported, params,
                   registry, deprecations, lookups, stderr, color, cmd_result,
                   event_data, transform_left, filter_saw, result, first>>

\* Line 140: post-parse-args; a hook (the query argument's) may set query_active.
RaisePostParseArgs ==
    /\ pc = "post_parse_args"
    /\ log' = Append(log, Call(EVENT_INVOKER_POST_PARSE_ARGS,
                               <<getattr(parsed_args, K_command, None).val>>))
    /\ \/ data' = data
       \/ data' = [data EXCEPT !.items = setattr(data.items, "query_active", Bool(TRUE))]
    /\ pc' = "validation"
    /\ UNCHANGED <<argv, args, command, returned_ns, parsed_args, validator_calls,
                   reported, params, registry, deprecations, lookups, stderr, color,
                   cmd_result, event_data, transform_left, filter_saw, result, error,
                   first>>

\* Line 142: self._validation(parsed_args).
Validation ==
    /\ pc = "validation"
    /\ LET r == _validation(parsed_args, ParserRef("self.parser")) IN
        /\ parsed_args' = r.ns
        /\ validator_calls' = r.calls
        /\ reported' = r.reported
        /\ error' = r.exc
        /\ pc' = IF r.exc = NoError THEN "filter_params" ELSE "failed"
    /\ UNCHANGED <<argv, args, data, log, command, returned_ns, params, registry,
                   deprecations, lookups, stderr, color, cmd_result, event_data,
                   transform_left, filter_saw, result, first>>

\* A faulty variant of FilterParams, which records the heuristic command name:
\* self.data['command'] = command.
FilterParams_heuristic_name ==
    /\ pc = "filter_params"
    /\ data' = [data EXCEPT !.items = setattr(data.items, "command", Str(command))]
    /\ LET filtered == _filter_params(parsed_args) IN
        /\ params' = filtered.params
        /\ parsed_args' = filtered.ns
    /\ pc' = "deprecations"
    /\ UNCHANGED <<argv, args, log, command, returned_ns, validator_calls, reported,
                   registry, deprecations, lookups, stderr, color, cmd_result,
                   event_data, transform_left, filter_saw, result, error, first>>

\* A faulty variant of FilterParams, which filters the namespace as parse_args
\* returned it, before the validators ran.
FilterParams_before_validation ==
    /\ pc = "filter_params"
    /\ data' = [data EXCEPT !.items =
                   setattr(data.items, "command", getattr(parsed_args, K_command, None))]
    /\ params' = _filter_params(returned_ns).params
    /\ pc' = "deprecations"
    /\ UNCHANGED <<argv, args, log, command, returned_ns, parsed_args, validator_calls,
                   reported, registry, deprecations, lookups, stderr, color, cmd_result,
                   event_data, transform_left, filter_saw, result, error, first>>

\* Lines 144-146: the resolved command is recorded and the parameters filtered.
FilterParams ==
    /\ pc = "filter_params"
    /\ data' = [data EXCEPT !.items =
                   setattr(data.items, "command", getattr(parsed_args, K_command, None))]
    /\ LET filtered == _filter_params(parsed_args) IN
        /\ params' = filtered.params
        /\ parsed_args' = filtered.ns
    /\ pc' = "deprecations"
    /\ UNCHANGED <<argv, args, log, command, returned_ns, validator_calls, reported,
                   registry, deprecations, lookups, stderr, color, cmd_result,
                   event_data, transform_left, filter_saw, result, error, first>>

\* Lines 148-165: the deprecation warnings are collected, against the descriptors
\* registered for the command's groups.
CollectDeprecations ==
    /\ pc = "deprecations"
    /\ \E table \in DeprecationTables(getattr(parsed_args, K_func, None).val.name) :
        LET r == collect_deprecations(parsed_args, table)
        IN  /\ registry' = table
            /\ parsed_args' = r.ns
            /\ deprecations' = r.deprecations
            /\ lookups' = r.lookups
    /\ pc' = "print"
    /\ UNCHANGED <<argv, args, data, log, command, returned_ns, validator_calls,
                   reported, params, stderr, color, cmd_result, event_data,
                   transform_left, filter_saw, result, error, first>>

\* Lines 167-170: colorama.init(), one print per warning, colorama.deinit(); a print
\* may raise (sys.stderr is closed, say), and nothing catches it.
Prints(n) == [i \in 1..n |-> Call("print", <<>>)]

PrintDeprecations ==
    /\ pc = "print"
    /\ \/ /\ log' = log \o <<Call("colorama.init", <<>>)>> \o Prints(Len(deprecations))
                        \o <<Call("colorama.deinit", <<>>)>>
          /\ stderr' = deprecations
          /\ color' = FALSE
          /\ pc' = "handler"
          /\ error' = error
       \/ \E k \in 1..Len(deprecations) :
          /\ log' = log \o <<Call("colorama.init", <<>>)>> \o Prints(k)
          /\ stderr' = SubSeq(deprecations, 1, k - 1)
          /\ color' = TRUE
          /\ pc' = "failed"
          /\ error' = Exc("IOError", "print")
    /\ UNCHANGED <<argv, args, data, command, returned_ns, parsed_args,
                   validator_calls, reported, params, registry, deprecations, lookups,
                   cmd_result, event_data, transform_left, filter_saw, result, first>>

\* Lines 172-173: the handler is called with the parameters and returns, or raises;
\* what it returns goes through todict.
InvokeHandler ==
    /\ pc = "handler"
    /\ log' = Append(log, Call("handler", <<>>))
    /\ \/ /\ \E returned \in HandlerResults :
                /\ cmd_result' = returned
                /\ event_data' = [result |-> todict(returned)]
          /\ pc' = "transform"
          /\ error' = error
       \/ /\ pc' = "failed"
          /\ error' = Exc("HandlerError", "handler")
          /\ UNCHANGED <<cmd_result, event_data>>
    /\ UNCHANGED <<argv, args, data, command, returned_ns, parsed_args,
                   validator_calls, reported, params, registry, deprecations, lookups,
                   stderr, color, transform_left, filter_saw, result, first>>

\* Line 176: transform-result; its hooks may rewrite event_data['result'].
RaiseTransformResult ==
    /\ pc = "transform"
    /\ log' = Append(log, Call(EVENT_INVOKER_TRANSFORM_RESULT, <<>>))
    /\ \E r \in TransformChoices(event_data.result) :
        /\ event_data' = [result |-> r]
        /\ transform_left' = r
    /\ pc' = "filter"
    /\ UNCHANGED <<argv, args, data, command, returned_ns, parsed_args,
                   validator_calls, reported, params, registry, deprecations, lookups,
                   stderr, color, cmd_result, filter_saw, result, error, first>>

\* A faulty variant of RaiseFilterResult, which raises filter-result on a payload of
\* its own, {'result': cmd_result}.
RaiseFilterResult_fresh_payload ==
    /\ pc = "filter"
    /\ log' = Append(log, Call(EVENT_INVOKER_FILTER_RESULT, <<>>))
    /\ filter_saw' = todict(cmd_result)
    /\ \E r \in FilterChoices(todict(cmd_result)) : event_data' = [result |-> r]
    /\ pc' = "return"
    /\ UNCHANGED <<argv, args, data, command, returned_ns, parsed_args,
                   validator_calls, reported, params, registry, deprecations, lookups,
                   stderr, color, cmd_result, transform_left, result, error, first>>

\* Line 177: filter-result, on the same event_data.
RaiseFilterResult ==
    /\ pc = "filter"
    /\ log' = Append(log, Call(EVENT_INVOKER_FILTER_RESULT, <<>>))
    /\ filter_saw' = event_data.result
    /\ \E r \in FilterChoices(event_data.result) : event_data' = [result |-> r]
    /\ pc' = "return"
    /\ UNCHANGED <<argv, args, data, command, returned_ns, parsed_args,
                   validator_calls, reported, params, registry, deprecations, lookups,
                   stderr, color, cmd_result, transform_left, result, error, first>>

\* Lines 179-181: the CommandResultItem, with self.data['query_active'].
ReturnResult ==
    /\ pc = "return"
    /\ LET query_active == subscript(data, "query_active")
           cmd == getattr(parsed_args, K_func, None).val
       IN  /\ data' = query_active.data
           /\ error' = query_active.exc
           /\ IF query_active.exc = NoError
              THEN /\ result' = CommandResultItem(event_data.result, cmd.table_transformer,
                                                  query_active.value)
                   /\ pc' = "done"
              ELSE /\ result' = result
                   /\ pc' = "failed"
    /\ UNCHANGED <<argv, args, log, command, returned_ns, parsed_args, validator_calls,
                   reported, params, registry, deprecations, lookups, stderr, color,
                   cmd_result, event_data, transform_left, filter_saw, first>>

\* A run that asked for help with the word `help` has ended; a new invoker is
\* constructed, to be run with --help in its place.
InvokeAgainWithFlag ==
    /\ pc \in {"done", "failed"}
    /\ first = NoRun
    /\ argv # <<>>
    /\ lower(argv[1]) = T_help
    /\ first' = [argv |-> argv, log |-> log]
    /\ \E initial_data \in InitialData : data' = construct(initial_data)
    /\ pc' = "constructed"
    /\ argv' = <<>>
    /\ args' = <<>>
    /\ log' = <<>>
    /\ command' = <<>>
    /\ returned_ns' = <<>>
    /\ parsed_args' = <<>>
    /\ validator_calls' = <<>>
    /\ reported' = NotReported
    /\ params' = <<>>
    /\ registry' = <<>>
    /\ deprecations' = <<>>
    /\ lookups' = <<>>
    /\ stderr' = <<>>
    /\ color' = FALSE
    /\ cmd_result' = Unset
    /\ event_data' = [result |-> Unset]
    /\ transform_left' = Unset
    /\ filter_saw' = Unset
    /\ result' = Unset
    /\ error' = NoError

Next ==
    \/ Execute
    \/ LoadCommandTable
    \/ LoadArguments
    \/ RegisterCommandTable
    \/ ShowWelcome
    \/ PreParseArgs
    \/ ParseArgs
    \/ RaisePostParseArgs
    \/ Validation
    \/ FilterParams
    \/ CollectDeprecations
    \/ PrintDeprecations
    \/ InvokeHandler
    \/ RaiseTransformResult
    \/ RaiseFilterResult
    \/ ReturnResult
    \/ InvokeAgainWithFlag

Spec == Init /\ [][Next]_vars

(* ------------------------------ reading the log ------------------------ *)

EventOrder ==
    <<EVENT_INVOKER_PRE_CMD_TBL_CREATE, EVENT_INVOKER_POST_CMD_TBL_CREATE,
      EVENT_INVOKER_CMD_TBL_LOADED, EVENT_INVOKER_PRE_PARSE_ARGS,
      EVENT_INVOKER_POST_PARSE_ARGS, EVENT_INVOKER_TRANSFORM_RESULT,
      EVENT_INVOKER_FILTER_RESULT>>

EventNames == {EventOrder[i] : i \in DOMAIN EventOrder}

RECURSIVE EventsOf(_)
EventsOf(l) ==
    IF l = <<>> THEN <<>>
    ELSE IF Head(l).op \in EventNames THEN <<Head(l).op>> \o EventsOf(Tail(l))
    ELSE EventsOf(Tail(l))

IsPrefix(s, t) == Len(s) <= Len(t) /\ SubSeq(t, 1, Len(s)) = s

Count(op, l) == Cardinality({i \in DOMAIN l : l[i].op = op})
Called(op) == Count(op, log) > 0

\* A run of execute is under way or over.
Running == pc # "constructed"
Returned == pc = "done"
Raised == pc = "failed"

(* ------------------------------ C1 ------------------------------------- *)

\* C1: the events of a run are raised in the order pre-command-table-create,
\* post-command-table-create, command-table-loaded, pre-parse-args, post-parse-args,
\* transform-result, filter-result: at every moment of every run the events raised
\* so far are a prefix of that sequence (none twice, none out of order), and a run
\* with arguments that returns has raised all seven.
C1_EventOrder ==
    /\ IsPrefix(EventsOf(log), EventOrder)
    /\ (Returned /\ argv # <<>>) => EventsOf(log) = EventOrder

\* A run with arguments has returned a CommandResultItem.
C1_Witness ==
    /\ Returned
    /\ argv # <<>>
    /\ result.kind = "CommandResultItem"
    /\ Len(EventsOf(log)) = 7

(* ------------------------------ C2 ------------------------------------- *)

\* C2: transform-result is raised before filter-result on one payload: the
\* transform-result hooks find todict of what the handler returned, the
\* filter-result hooks find what the transform-result hooks left, and the
\* CommandResultItem returned carries what the filter-result hooks left.
C2_TransformThenFilter ==
    /\ pc = "transform" => event_data.result = todict(cmd_result)
    /\ \A i \in DOMAIN log :
          log[i].op = EVENT_INVOKER_FILTER_RESULT
              => \E j \in 1..(i - 1) : log[j].op = EVENT_INVOKER_TRANSFORM_RESULT
    /\ Called(EVENT_INVOKER_FILTER_RESULT) => filter_saw = transform_left
    /\ (Returned /\ argv # <<>>) => result.val.result = event_data.result

\* The spec's example: the transform-result hooks set {a}, the filter-result hooks
\* found it and extended it to {a, b}, which is what was returned.
C2_Witness ==
    /\ Returned
    /\ cmd_result.kind = "object"
    /\ transform_left = Dict(<<"a">>)
    /\ filter_saw = Dict(<<"a">>)
    /\ result.kind = "CommandResultItem"
    /\ result.val.result = Dict(<<"a", "b">>)

(* ------------------------------ C3 ------------------------------------- *)

\* C3: a run of execute([]) calls neither parse_args nor a validator nor the handler
\* and raises none of pre-parse-args, post-parse-args, transform-result,
\* filter-result; once the command table is registered it enables autocompletion
\* once, shows the welcome view and returns None.
C3_NoArgs ==
    (Running /\ argv = <<>>) =>
        /\ ~Called("parse_args")
        /\ ~Called("handler")
        /\ validator_calls = <<>>
        /\ \A i \in 4..7 : ~Called(EventOrder[i])
        /\ pc \notin {"loaded", "load_command_table", "load_arguments", "register"} =>
              \/ Raised /\ error.type = "LoaderError" /\ ~Called("show_welcome")
              \/ /\ Returned
                 /\ result = None
                 /\ Count("show_welcome", log) = 1
                 /\ Count("enable_autocomplete", log) = 1

C3_Witness ==
    /\ Returned
    /\ argv = <<>>
    /\ result = None
    /\ Called("show_welcome")

(* ------------------------------ C4 ------------------------------------- *)

OpsOf(l) == [i \in DOMAIN l |-> l[i].op]
IndexOf(op, l) == CHOOSE i \in DOMAIN l : l[i].op = op
PayloadOf(op, l) == l[IndexOf(op, l)].payload
UpToParse(l) == SubSeq(l, 1, IndexOf("parse_args", l))

\* A run of execute([help] + rest) and then a run of execute([--help] + rest) have
\* both called parse_args.
BothParsed ==
    /\ first # NoRun
    /\ Count("parse_args", first.log) > 0
    /\ Called("parse_args")

\* The tokens of rest that the heuristic consumes: those with no `-`-prefixed token
\* at or before them.
Consumed(rest) ==
    {i \in DOMAIN rest : \A j \in 1..i : ~(Len(rest[j]) > 0 /\ rest[j][1] = "-")}

\* C4 as claimed: the run of execute([help] + rest) and the run of
\* execute([--help] + rest) make the same calls and raise the same events with the
\* same payloads, up to and including parse_args.
C4_Original == BothParsed => UpToParse(first.log) = UpToParse(log)

\* C4 as amended: the two runs make the same calls and raise the same events, by
\* name, and `help` in any letter case is rewritten to --help before pre-parse-args;
\* the payloads before that differ: pre-command-table-create and load_command_table
\* get the vector as the caller gave it, load_arguments gets a name that starts with
\* help in the one run and the empty name in the other; pre-parse-args and parse_args
\* get [--help] + rest with the consumed tokens of rest lower-cased in the one run and
\* [--help] + rest in the other, which are the same vector exactly when the tokens of
\* rest before its first `-`-prefixed token are lower-case already.
C4_HelpAmended ==
    BothParsed =>
        LET rest == Tail(first.argv)
            one == UpToParse(first.log)
            two == UpToParse(log)
            AsGiven == {EVENT_INVOKER_PRE_CMD_TBL_CREATE, "load_command_table"}
            Parsed == {EVENT_INVOKER_PRE_PARSE_ARGS, "parse_args"}
        IN  /\ OpsOf(one) = OpsOf(two)
            /\ \A i \in DOMAIN one :
                  one[i].op \notin AsGiven \cup Parsed \cup {"load_arguments"}
                      => one[i] = two[i]
            /\ \A op \in AsGiven :
                  /\ PayloadOf(op, one) = first.argv
                  /\ PayloadOf(op, two) = <<T_flagHelp>> \o rest
            /\ SubSeq(PayloadOf("load_arguments", one)[1], 1, 4) = T_help
            /\ PayloadOf("load_arguments", two) = <<T_empty>>
            /\ \A op \in Parsed :
                  /\ PayloadOf(op, two) = <<T_flagHelp>> \o rest
                  /\ PayloadOf(op, one) =
                        [i \in 1..Len(first.argv) |->
                            IF i = 1 THEN T_flagHelp
                            ELSE IF i - 1 \in Consumed(rest) THEN lower(rest[i - 1])
                            ELSE rest[i - 1]]
                  /\ PayloadOf(op, one) = PayloadOf(op, two)
                        <=> \A i \in Consumed(rest) : lower(rest[i]) = rest[i]

\* execute([Help, help]) and then execute([--help, help]) have parsed the same vector.
C4_Witness ==
    /\ BothParsed
    /\ first.argv = <<T_Help, T_help>>
    /\ PayloadOf("parse_args", first.log) = <<T_flagHelp, T_help>>
    /\ PayloadOf("parse_args", log) = <<T_flagHelp, T_help>>

(* ------------------------------ C5 ------------------------------------- *)

Last(l) == l[Len(l)]

\* The validator called last raised `kind`.
ValidatorRaised(kind) == validator_calls # <<>> /\ Last(validator_calls).validator = kind

\* The exception a validator of this kind raises.
RaisedBy(kind) == call_validator(Validator(kind), <<>>).exc

\* C5: when a validator, of either level, raises a CLIError, that very exception
\* leaves execute: validation_error is not called, the handler is not called and
\* neither transform-result nor filter-result is raised.
C5_CLIErrorPropagates ==
    ValidatorRaised("cli_error") =>
        /\ Raised
        /\ error = RaisedBy("cli_error")
        /\ error.type = "CLIError"
        /\ reported = NotReported
        /\ ~Called("handler")
        /\ ~Called(EVENT_INVOKER_TRANSFORM_RESULT)
        /\ ~Called(EVENT_INVOKER_FILTER_RESULT)
        /\ result = Unset

\* An argument-level validator raised a CLIError after another one had run.
C5_Witness ==
    /\ ValidatorRaised("cli_error")
    /\ Last(validator_calls).level = "arg"
    /\ Raised
    /\ error.type = "CLIError"

C5_WitnessCmdLevel ==
    /\ ValidatorRaised("cli_error")
    /\ Last(validator_calls).level = "cmd"
    /\ Raised

(* ------------------------------ C6 ------------------------------------- *)

\* C6: when a validator raises anything but a CLIError, validation_error is called
\* with the message of that exception, on the namespace's _parser when it has one
\* and on the invoker's parser otherwise; execute fails with a ValidationError of
\* that message, the handler is not called and nothing is returned.
C6_FaultBecomesValidationError ==
    ValidatorRaised("fault") =>
        /\ Raised
        /\ error.type = "ValidationError"
        /\ error.msg = RaisedBy("fault").msg
        /\ reported.message = RaisedBy("fault").msg
        /\ reported.via = IF hasattr(returned_ns, K__parser)
                          THEN getattr(returned_ns, K__parser, None).val
                          ELSE "self.parser"
        /\ ~Called("handler")
        /\ ~Called(EVENT_INVOKER_TRANSFORM_RESULT)
        /\ result = Unset

\* A faulty validator was reported through the namespace's own parser.
C6_Witness ==
    /\ ValidatorRaised("fault")
    /\ hasattr(returned_ns, K__parser)
    /\ reported.via = "subparser"
    /\ Raised

\* A faulty validator was reported through the invoker's parser.
C6_WitnessTopLevel ==
    /\ ValidatorRaised("fault")
    /\ ~hasattr(returned_ns, K__parser)
    /\ reported.via = "self.parser"

(* ------------------------------ C7 ------------------------------------- *)

\* _validation has run on the namespace parse_args returned.
ValidationRan == Called(EVENT_INVOKER_POST_PARSE_ARGS) /\ pc # "validation"

\* C7: one run never calls validators of both levels: when the namespace carries a
\* truthy _command_validator, that validator is called once and no argument-level
\* validator is called; otherwise only argument-level validators are called.
C7_OneLevel ==
    /\ Cardinality({validator_calls[i].level : i \in DOMAIN validator_calls}) <= 1
    /\ ValidationRan =>
          LET cmd_validator == getattr(returned_ns, K__command_validator, None)
          IN  IF Truthy(cmd_validator)
              THEN validator_calls = <<ValidatorCall("cmd", cmd_validator)>>
              ELSE \A i \in DOMAIN validator_calls : validator_calls[i].level = "arg"

\* A namespace with a command-level validator and argument-level validators has been
\* validated, and the command-level validator returned.
C7_Witness ==
    /\ ValidationRan
    /\ Truthy(getattr(returned_ns, K__command_validator, None))
    /\ Truthy(getattr(returned_ns, K__argument_validators, None))
    /\ pc = "filter_params"

(* ------------------------------ C8 ------------------------------------- *)

\* C8: the step that filters the parameters leaves the namespace as it was, and the
\* parameters are exactly the namespace's items whose key neither starts with `_` nor
\* is func or command, each once and with the namespace's value.
C8_FilterParams ==
    [][pc = "filter_params" =>
          /\ parsed_args' = parsed_args
          /\ \A i \in DOMAIN parsed_args :
                (\E j \in DOMAIN params' : params'[j] = parsed_args[i])
                    <=> /\ ~startswith_underscore(parsed_args[i].key)
                        /\ parsed_args[i].key \notin {K_func, K_command}
          /\ \A j \in DOMAIN params' : \E i \in DOMAIN parsed_args : parsed_args[i] = params'[j]
          /\ Cardinality(Keys(params')) = Len(params')]_vars

\* The parameters of a namespace with arguments, a private argument and validator
\* attributes have been filtered, after a validator rewrote an argument.
C8_Witness ==
    /\ pc = "deprecations"
    /\ hasattr(parsed_args, K__subscription)
    /\ hasattr(parsed_args, K__argument_deprecations)
    /\ Keys(params) = {K_name, K_no_wait}
    /\ Keys(parsed_args) \ Keys(params) # {}

(* ------------------------------ C9 ------------------------------------- *)

\* Lines 148-165 have run.
CollectDone ==
    \/ pc \in {"print", "handler", "transform", "filter", "return"}
    \/ Returned /\ argv # <<>>
    \/ Raised /\ error.type \in {"IOError", "HandlerError", "KeyError"}

\* The command's name, and the paths of the groups above it that carry a descriptor.
CmdName == getattr(returned_ns, K_func, None).val.name
AncestorPaths(name) ==
    {join(<<" ">>, SubSeq(split(name), 1, k)) : k \in 1..(Len(split(name)) - 1)}
DeprecatedAncestors == AncestorPaths(CmdName) \cap DOMAIN registry
Deepest(paths) == CHOOSE p \in paths : \A q \in paths : Len(q) <= Len(p)
Implicit(l) == {i \in DOMAIN l : l[i].kind = "ImplicitDeprecated"}

\* C9: when groups above the command carry a descriptor, one implicit deprecation is
\* appended, last, and it is made of the descriptor of the deepest such group: that
\* descriptor's fields without the two accessors, with object_type "command".
C9_NearestAncestor ==
    (CollectDone /\ DeprecatedAncestors # {}) =>
        LET nearest == registry[Deepest(DeprecatedAncestors)]
            implicit == Last(deprecations)
        IN  /\ Implicit(deprecations) = {Len(deprecations)}
            /\ DOMAIN implicit.val = (DOMAIN nearest.val) \ {"_get_tag", "_get_message"}
            /\ implicit.val.object_type = "command"
            /\ \A k \in (DOMAIN implicit.val) \ {"object_type"} :
                  implicit.val[k] = nearest.val[k]

\* Both groups above vm nic ls carry a descriptor, and the one of vm nic was taken.
C9_Witness ==
    /\ CollectDone
    /\ DeprecatedAncestors = {N_vm, N_vm_nic}
    /\ Last(deprecations).val.target = N_vm_nic
    /\ lookups = <<N_vm_nic>>

(* ------------------------------ C10 ------------------------------------ *)

\* C10: when no group above the command carries a descriptor, no implicit deprecation
\* is appended to the warnings or printed; a command name of one token makes no
\* lookup.
C10_NoAncestorNoImplicit ==
    CollectDone =>
        /\ DeprecatedAncestors = {} =>
              /\ Implicit(deprecations) = {}
              /\ Implicit(stderr) = {}
        /\ Len(split(CmdName)) <= 1 => lookups = <<>>

\* vm nic ls has run to its end with a descriptor registered for its own name and
\* none for vm nic or vm: both groups were looked up, none was found.
C10_Witness ==
    /\ CollectDone
    /\ Returned
    /\ CmdName = N_vm_nic_ls
    /\ DOMAIN registry = {N_vm_nic_ls}
    /\ lookups = <<N_vm_nic, N_vm>>
    /\ Implicit(stderr) = {}
    /\ stderr # <<>>

\* A command of one token has run to its end.
C10_WitnessOneToken ==
    /\ CollectDone
    /\ Returned
    /\ CmdName = N_ls
    /\ lookups = <<>>

(* ------------------------------ C11 ------------------------------------ *)

\* The command parse_args resolved, and the warnings of the command level.
Cmd == getattr(returned_ns, K_func, None).val
Explicit(l) == {i \in DOMAIN l : l[i].kind = "Deprecated" /\ l[i].val.object_type = "command"}
CommandLevel(l) == Explicit(l) \cup Implicit(l)

\* C11: at most one warning of the command level is printed in a run, and when the
\* command carries a deprecate_info of its own no implicit warning is printed for it.
C11_ExplicitTakesPrecedence ==
    CollectDone =>
        /\ Cardinality(CommandLevel(stderr)) <= 1
        /\ Truthy(Cmd.deprecate_info) => Implicit(stderr) = {}

(* ------------------------------ C12 ------------------------------------ *)

\* The warnings the parser gathered for the arguments, and the command's own.
ArgumentWarnings == getattr(returned_ns, K__argument_deprecations, List(<<>>)).val
ExplicitWarnings == IF Truthy(Cmd.deprecate_info) THEN <<Cmd.deprecate_info>> ELSE <<>>

Indices(op) == {i \in DOMAIN log : log[i].op = op}
Before(ops, op) == \A i \in Indices(op) : \A o \in ops : \A j \in Indices(o) : j < i

\* C12: on a run that has called the handler, the warnings printed are the argument
\* warnings as the parser gathered them, then the command's own deprecate_info if it
\* has one, then the implicit warning if a group above the command carries a
\* descriptor, and nothing else; each was printed, between colorama.init and
\* colorama.deinit, before the handler was called, and the handler was called once.
C12_WarningOrder ==
    Called("handler") =>
        LET given == ArgumentWarnings \o ExplicitWarnings
            rest == SubSeq(stderr, Len(given) + 1, Len(stderr))
        IN  /\ IsPrefix(given, stderr)
            /\ Len(rest) = IF DeprecatedAncestors = {} THEN 0 ELSE 1
            /\ \A i \in DOMAIN rest : rest[i].kind = "ImplicitDeprecated"
            /\ Count("print", log) = Len(stderr)
            /\ Before({"colorama.init"}, "print")
            /\ Before({"print"}, "colorama.deinit")
            /\ Before({"colorama.init", "print", "colorama.deinit"}, "handler")
            /\ Count("handler", log) = 1

\* The handler was called after an argument warning, the command's own warning and an
\* implicit warning had been printed, in that order.
C12_Witness ==
    /\ Called("handler")
    /\ Len(stderr) = 3
    /\ stderr[1].val.object_type = "argument"
    /\ stderr[2] = Cmd.deprecate_info
    /\ stderr[3].kind = "ImplicitDeprecated"
    /\ Count("print", log) = 3

(* ------------------------------ C13 ------------------------------------ *)

\* execute has returned or raised.
Ended == Returned \/ Raised

\* C13: every colorama.init of a run is followed by a colorama.deinit, also when a
\* print of a warning raises: no run ends with colorama still initialised.
C13_ColorReleased ==
    Ended =>
        /\ color = FALSE
        /\ Count("colorama.init", log) = Count("colorama.deinit", log)

(* ------------------------------ C14 ------------------------------------ *)

\* parse_args has been called once execute is past it.
PastParse == Called("parse_args")

\* parse_args raised: it was called and did not return a namespace.
ParseFailed == PastParse /\ returned_ns = <<>>

\* C14: when parse_args raises, its exception leaves execute: parse_args is the last
\* thing the run did, post-parse-args is not raised, no validator is called, no
\* warning is printed, the handler is not called and nothing is returned.
C14_ParseErrorPropagates ==
    ParseFailed =>
        /\ Raised
        /\ error = Exc("ParseError", "parse_args")
        /\ Last(log).op = "parse_args"
        /\ ~Called(EVENT_INVOKER_POST_PARSE_ARGS)
        /\ validator_calls = <<>>
        /\ ~Called("print")
        /\ stderr = <<>>
        /\ ~Called("handler")
        /\ result = Unset

\* parse_args raised on a vector that does not ask for help.
C14_Witness ==
    /\ ParseFailed
    /\ Raised
    /\ argv = <<T_opt, T_Help>>
    /\ error.type = "ParseError"

(* ------------------------------ C15 ------------------------------------ *)

\* The run has raised filter-result and gone on to lines 179-181.
PastFilter == Called(EVENT_INVOKER_FILTER_RESULT) /\ pc # "return"

\* C15: a CommandResultItem is made only as the last step of a run, after
\* filter-result, never on the run of execute([]) nor on a run that failed; and
\* every run that has raised filter-result returns one, whose is_query_active is
\* self.data's query_active (None when nothing set it), whatever initial_data the
\* invoker was constructed with.
C15_ResultItem ==
    /\ result.kind = "CommandResultItem" =>
          /\ Returned
          /\ argv # <<>>
          /\ Last(log).op = EVENT_INVOKER_FILTER_RESULT
    /\ (Raised \/ argv = <<>>) => result.kind # "CommandResultItem"
    /\ PastFilter =>
          /\ Returned
          /\ result.kind = "CommandResultItem"
          /\ result.val.is_query_active = getattr(data.items, "query_active", None)

(* ------------------------------ C16 ------------------------------------ *)

\* Lines 121-122 have run and line 134 has not rewritten args yet.
NameExtracted == pc \in {"register", "loaded"}

BeginsWithDash(token) == Len(token) > 0 /\ token[1] = "-"

\* C16: the heuristic consumes the tokens before the first token that begins with
\* `-` (all of them if there is none), an empty token among them included: each is
\* lower-cased in the caller's list, and the name returned, which is what
\* load_arguments gets, is those tokens lower-cased and joined by single blanks;
\* the tokens from the first `-`-prefixed one on are as the caller gave them.
C16_HeuristicName ==
    NameExtracted =>
        LET dashes == {i \in DOMAIN argv : BeginsWithDash(argv[i])}
            n == IF dashes = {} THEN Len(argv)
                 ELSE (CHOOSE i \in dashes : \A j \in dashes : i <= j) - 1
        IN  /\ Len(args) = Len(argv)
            /\ \A i \in 1..n : args[i] = lower(argv[i])
            /\ \A i \in (n + 1)..Len(argv) : args[i] = argv[i]
            /\ command = join(<<" ">>, [i \in 1..n |-> lower(argv[i])])
            /\ Len(command) = IF n = 0 THEN 0
                              ELSE Len(join(<<>>, SubSeq(args, 1, n))) + n - 1
            /\ PayloadOf("load_arguments", log) = <<command>>

\* An empty token and an upper-case token were consumed: ['', 'Help'] gave ' help'.
C16_Witness ==
    /\ NameExtracted
    /\ argv = <<T_empty, T_Help>>
    /\ args = <<T_empty, T_help>>
    /\ command = <<" ", "h", "e", "l", "p">>

\* The token after the first `-`-prefixed one was left as given.
C16_WitnessOption ==
    /\ NameExtracted
    /\ argv = <<T_opt, T_Help>>
    /\ args = argv
    /\ command = <<>>

(* ------------------------------ C17 ------------------------------------ *)

\* The mode of the run's validation, whether a validator raised in it, and the
\* validators a second _validation of the same namespace calls.
CommandLevelMode == Truthy(getattr(returned_ns, K__command_validator, None))
UsedReference == IF CommandLevelMode THEN K__command_validator ELSE K__argument_validators
OtherReference == IF CommandLevelMode THEN K__argument_validators ELSE K__command_validator
ValidationRaised == Raised /\ error.type \in {"CLIError", "ValidationError"}
CalledAgain == _validation(parsed_args, ParserRef("self.parser")).calls

\* C17 as claimed: once _validation has run on a namespace, the reference it used is
\* gone from the namespace and a second _validation of the namespace calls no
\* validator, also when a validator raised in the first.
C17_Original ==
    ValidationRan =>
        /\ ~hasattr(parsed_args, UsedReference)
        /\ CalledAgain = <<>>

\* C17 as amended: when no validator raised, the reference used is gone and the
\* other one is as it was; a second _validation then calls no validator in the
\* argument-level mode and, in the command-level mode, calls exactly the validators
\* of the _argument_validators list the namespace still carries.  When a validator
\* raised, the reference used is still there and a second _validation calls the
\* validators again, from the first one.
C17_OneShotAmended ==
    ValidationRan =>
        /\ ~ValidationRaised =>
              /\ ~hasattr(parsed_args, UsedReference)
              /\ hasattr(parsed_args, OtherReference) = hasattr(returned_ns, OtherReference)
              /\ ~CommandLevelMode => CalledAgain = <<>>
              /\ CommandLevelMode =>
                    /\ \A i \in DOMAIN CalledAgain : CalledAgain[i].level = "arg"
                    /\ CalledAgain = <<>> <=>
                          getattr(parsed_args, K__argument_validators, List(<<>>)).val = <<>>
        /\ ValidationRaised =>
              /\ hasattr(parsed_args, UsedReference)
              /\ CalledAgain # <<>>
              /\ Head(CalledAgain) = Head(validator_calls)

\* A command-level validator returned; its reference is gone, and a second
\* _validation would call the argument-level validator the namespace carries.
C17_Witness ==
    /\ ValidationRan
    /\ CommandLevelMode
    /\ ~ValidationRaised
    /\ ~hasattr(parsed_args, K__command_validator)
    /\ CalledAgain = <<ValidatorCall("arg", Validator("fault"))>>

\* An argument-level validator raised after another had returned; the list is still
\* there.
C17_WitnessRaised ==
    /\ ValidationRan
    /\ ~CommandLevelMode
    /\ ValidationRaised
    /\ Len(validator_calls) = 2
    /\ hasattr(parsed_args, K__argument_validators)

\* Argument-level validators returned; the list is gone and none would be called
\* again.
C17_WitnessArgLevel ==
    /\ ValidationRan
    /\ ~CommandLevelMode
    /\ ~ValidationRaised
    /\ validator_calls # <<>>
    /\ ~hasattr(parsed_args, K__argument_validators)
    /\ CalledAgain = <<>>

(* ------------------------------ C18 ------------------------------------ *)

\* self.data['command'], and the name parse_args resolved.
DataCommand == getattr(data.items, "command", None)
ResolvedCommand == getattr(returned_ns, K_command, None)

\* C18: self.data always has the key command.  It is 'unknown' from construction,
\* whatever initial_data gave, until _validation has returned, and the name
\* parse_args resolved from then on; a run that ends in load_command_table,
\* parse_args or _validation leaves it 'unknown', and it is never the heuristic name.
C18_CommandInState ==
    /\ hasattr(data.items, "command")
    /\ IF CollectDone \/ pc = "deprecations"
       THEN DataCommand = ResolvedCommand
       ELSE DataCommand = Str(U_unknown)
    /\ (Raised /\ error.type \in {"LoaderError", "ParseError", "CLIError", "ValidationError"})
          => DataCommand = Str(U_unknown)

\* The invoker was constructed with {'command': 'stale'}; the command is still
\* 'unknown' after a validator raised.
C18_Witness ==
    /\ data = [defaultdict |-> FALSE, items |-> <<Item("command", Str(U_unknown))>>]
    /\ Raised
    /\ error.type = "ValidationError"
    /\ ResolvedCommand = Str(N_ls)

\* The resolved name was recorded, and it is not the heuristic name.
C18_WitnessResolved ==
    /\ Returned
    /\ argv = <<T_empty, T_Help>>
    /\ command = <<" ", "h", "e", "l", "p">>
    /\ DataCommand = Str(N_vm_ls)

(* ------------------------------ C19 ------------------------------------ *)

\* The first k tokens of the command's name, joined.
NamePrefix(k) == join(<<" ">>, SubSeq(split(CmdName), 1, k))

\* C19: for a command name of n tokens the walk makes at most n - 1 lookups: the
\* i-th lookup is of the first n - i tokens, so the paths are proper prefixes of the
\* name, each shorter than the one before and none looked up twice, and never the
\* name itself; every lookup but the last found nothing, and the walk went on to
\* the root only if the lookups before found nothing.
C19_BoundedWalk ==
    CollectDone =>
        LET n == Len(split(CmdName)) IN
        /\ Len(lookups) <= (IF n = 0 THEN 0 ELSE n - 1)
        /\ \A i \in DOMAIN lookups : lookups[i] = NamePrefix(n - i)
        /\ \A i, j \in DOMAIN lookups : i < j => Len(lookups[j]) < Len(lookups[i])
        /\ \A i \in DOMAIN lookups : lookups[i] # CmdName
        /\ \A i \in 1..(Len(lookups) - 1) : lookups[i] \notin DOMAIN registry
        /\ Len(lookups) < n - 1 => Last(lookups) \in DOMAIN registry

\* vm nic ls, with descriptors for vm and for vm nic ls itself: vm nic was looked up
\* and missed, vm was looked up and found, vm nic ls was not looked up.
C19_Witness ==
    /\ CollectDone
    /\ CmdName = N_vm_nic_ls
    /\ DOMAIN registry = {N_vm, N_vm_nic_ls}
    /\ lookups = <<N_vm_nic, N_vm>>
    /\ Implicit(deprecations) # {}

(* ------------------------------ C20 ------------------------------------ *)

\* Line 146 has run.
Filtered == CollectDone \/ pc = "deprecations"

\* The namespace as the validators called leave it, one after the other.
RECURSIVE Validated(_, _)
Validated(calls, ns) ==
    IF calls = <<>> THEN ns
    ELSE Validated(Tail(calls), call_validator(Validator(Head(calls).validator), ns).ns)

\* The argument-level validators of the namespace, and the first of them that raises.
ArgumentValidators == getattr(returned_ns, K__argument_validators, List(<<>>)).val
Raisers == {i \in DOMAIN ArgumentValidators :
               call_validator(ArgumentValidators[i], <<>>).exc # NoError}
FirstRaiser == CHOOSE i \in Raisers : \A j \in Raisers : i <= j

\* C20: the parameters are filtered after post-parse-args and after the validators:
\* they are the public items (func and command apart) of the namespace as the
\* validators left it, each validator having got the namespace its predecessor left;
\* the argument-level validators are called in the order of the list, up to and
\* including the first that raises, and all of them when none raises.
C20_FilterAfterValidation ==
    /\ params # <<>> => Filtered
    /\ Filtered =>
          /\ Called(EVENT_INVOKER_POST_PARSE_ARGS)
          /\ ~ValidationRaised
          /\ LET ns == Validated(validator_calls, returned_ns)
             IN  /\ \A i \in DOMAIN params : getattr(ns, params[i].key, None) = params[i].value
                 /\ Keys(params) =
                       {k \in Keys(ns) : ~startswith_underscore(k)} \ {K_func, K_command}
    /\ (ValidationRan /\ ~CommandLevelMode) =>
          /\ Len(validator_calls) = IF Raisers = {} THEN Len(ArgumentValidators)
                                    ELSE FirstRaiser
          /\ \A i \in DOMAIN validator_calls :
                validator_calls[i] = ValidatorCall("arg", ArgumentValidators[i])
          /\ ValidationRaised <=> Raisers # {}

\* Two argument-level validators ran in order, the second reading what the first
\* wrote; the handler's parameters carry what both wrote.
C20_Witness ==
    /\ Called("handler")
    /\ validator_calls = <<ValidatorCall("arg", Validator("touch")),
                           ValidatorCall("arg", Validator("copy"))>>
    /\ getattr(returned_ns, K_name, None) = Num(1)
    /\ getattr(params, K_name, None) = Num(9)
    /\ getattr(params, K_no_wait, None) = Num(9)

\* The second of three argument-level validators raised; the third was not called.
C20_WitnessStopped ==
    /\ ValidationRaised
    /\ Len(ArgumentValidators) = 3
    /\ validator_calls = <<ValidatorCall("arg", Validator("ok")),
                           ValidatorCall("arg", Validator("fault"))>>
    /\ params = <<>>

====
